---------------------------- MODULE Spec2Model ----------------------------
(***************************************************************************)
(* A model of backend/server.py, the health tracking API: five document   *)
(* collections with create / list / get / update / delete handlers and    *)
(* the peptide IU calculator.                                             *)
(*                                                                         *)
(* Numbers.  The handlers compute on Python floats.  The model computes   *)
(* on exact rationals <<n, d>> (d > 0).  On the input sets used here the  *)
(* two agree: the values are far from the rounding boundaries, and the    *)
(* input sets leave out the inputs whose exact result is a tie of round() *)
(* (a binary float is never exactly such a tie, so there the direction    *)
(* the code rounds in depends on the representation error).               *)
(*                                                                         *)
(* Strings.  A string is the sequence of its character codes, so that the *)
(* store's ordering of strings is the lexicographic order of sequences.   *)
(***************************************************************************)
EXTENDS Integers, Sequences, FiniteSets, TLC

VARIABLES
    kind,       \* the resource (collection) the requests of this run address
    db,         \* the collection: identifier -> stored document, or Absent
    clock,      \* datetime.utcnow(), in ticks
    req,        \* per client: the update request in flight, if any
    resp,       \* the response sent last: the request it answers and its status
    issued,     \* the identifiers uuid4 has handed out
    created,    \* history: identifier -> what its create returned, until a write touches it
    born,       \* history: identifier -> the id and created_at its create returned, until deleted
    acked,      \* history: the identifiers whose delete was answered 200
    calc,       \* the calculator endpoint: its last request and response
    lst         \* the last page listed since the collection last changed

vars == <<kind, db, clock, req, resp, issued, created, born, acked, calc, lst>>

-----------------------------------------------------------------------------
(* Exact rational arithmetic standing for the float arithmetic.            *)

Rat(n) == <<n, 1>>

RatMul(a, b) == <<a[1] * b[1], a[2] * b[2]>>

\* a / b for b # 0, the denominator kept positive
RatDiv(a, b) == IF b[1] > 0 THEN <<a[1] * b[2], a[2] * b[1]>>
                ELSE <<-(a[1] * b[2]), -(a[2] * b[1])>>

RatEq(a, b) == a[1] * b[2] = b[1] * a[2]

RatLeq(a, b) == a[1] * b[2] <= b[1] * a[2]

Pow10(k) == IF k = 0 THEN 1 ELSE IF k = 1 THEN 10 ELSE IF k = 2 THEN 100
            ELSE IF k = 3 THEN 1000 ELSE 10000

\* round(x, ndigits): the nearest multiple of 10^-ndigits, an exact tie going to
\* the even one.
PyRound(x, ndigits) ==
    LET num == x[1] * Pow10(ndigits)
        q   == num \div x[2]
        r   == num % x[2]
        up  == \/ 2 * r > x[2]
               \/ 2 * r = x[2] /\ q % 2 = 1
    IN  <<IF up THEN q + 1 ELSE q, Pow10(ndigits)>>

-----------------------------------------------------------------------------
(* PeptideCalculation                                                      *)

\* The fields validate_positive is attached to.
PositiveFields == {"vial_amount_mg", "bac_water_ml", "dose_mcg"}

\* validate_positive: the fields of c that it raises ValueError for.
validate_positive(c) == {f \in PositiveFields : c[f] <= 0}

\* PeptideCalculation.calculate_iu, step by step as the method computes it.
calculate_iu_inverted(c) ==
    LET vial_amount_mcg == RatMul(Rat(c.vial_amount_mg), Rat(1000))
        concentration   == RatDiv(vial_amount_mcg, Rat(c.bac_water_ml))
        volume_ml       == RatDiv(concentration, Rat(c.dose_mcg))
        iu              == RatMul(volume_ml, Rat(100))
    IN  PyRound(iu, 2)

calculate_iu(c) ==
    LET vial_amount_mcg == RatMul(Rat(c.vial_amount_mg), Rat(1000))
        concentration   == RatDiv(vial_amount_mcg, Rat(c.bac_water_ml))
        volume_ml       == RatDiv(Rat(c.dose_mcg), concentration)
        iu              == RatMul(volume_ml, Rat(100))
    IN  PyRound(iu, 2)

\* A float division raises ZeroDivisionError on a zero divisor.
ZeroDivision(c) == c.bac_water_ml = 0 \/ c.vial_amount_mg = 0

-----------------------------------------------------------------------------
(* POST /peptides/calculate-iu                                             *)

NoBody == [none |-> TRUE]

\* The framework's answer to a request body that fails the parameter's model:
\* fastapi raises RequestValidationError before the handler is called, and its
\* default handler answers 422 with the failing fields.
RequestValidationError(fields) ==
    [status |-> 422, detail |-> fields, body |-> NoBody]

HTTPException(code) == [status |-> code, detail |-> {}, body |-> NoBody]

Ok(body) == [status |-> 200, detail |-> {}, body |-> body]

\* The body of calculate_peptide_iu, given a constructed PeptideCalculation.
calculate_peptide_iu(calculation) ==
    IF ZeroDivision(calculation)
    THEN HTTPException(500)
    ELSE LET iu                   == calculate_iu(calculation)
             vial_amount_mcg      == RatMul(Rat(calculation.vial_amount_mg), Rat(1000))
             concentration_mcg_ml == RatDiv(vial_amount_mcg, Rat(calculation.bac_water_ml))
             volume_ml            == RatDiv(Rat(calculation.dose_mcg), concentration_mcg_ml)
         IN  Ok([iu      |-> iu,
                 details |-> [vial_amount_mcg      |-> vial_amount_mcg,
                              concentration_mcg_ml |-> PyRound(concentration_mcg_ml, 2),
                              volume_ml            |-> PyRound(volume_ml, 4)]])

\* The endpoint: the body is validated into a PeptideCalculation, then handled.
CalculateEndpoint(c) ==
    IF validate_positive(c) # {}
    THEN RequestValidationError(validate_positive(c))
    ELSE calculate_peptide_iu(c)

\* Request bodies of the calculator.  No vial amount is a multiple of 4: with
\* these the exact results are never a tie of round().
CalcVialValues == {-1, 0, 1, 2, 5, 10}
CalcBacValues  == {-2, 0, 1, 2, 3}
CalcDoseValues == {-5, 0, 100, 125, 250, 300}

CalcRequests ==
    [vial_amount_mg : CalcVialValues, bac_water_ml : CalcBacValues,
     dose_mcg : CalcDoseValues]

NoCalc == [request |-> NoBody, response |-> NoBody]

Calculate(c) ==
    /\ calc' = [request |-> c, response |-> CalculateEndpoint(c)]
    /\ UNCHANGED <<kind, db, clock, req, resp, issued, created, born, acked, lst>>

-----------------------------------------------------------------------------
(* Values and their JSON form                                              *)

\* Python's None and JSON's null: a value that is no string and no date.
None == <<-1>>

\* A value of the wrong type for a string or a date field.
BadType == <<-2>>

Digit(n) == 48 + n

\* n in decimal, zero-padded to w characters
RECURSIVE Pad(_, _)
Pad(n, w) == IF w = 0 THEN <<>> ELSE Append(Pad(n \div 10, w - 1), Digit(n % 10))

\* the number a string of digits spells
RECURSIVE Num(_)
Num(s) == IF s = <<>> THEN 0
          ELSE 10 * Num(SubSeq(s, 1, Len(s) - 1)) + (s[Len(s)] - 48)

\* ... YYYY-DD-MM
DateIsoformatDayFirst(d) ==
    Pad(d[1], 4) \o <<45>> \o Pad(d[3], 2) \o <<45>> \o Pad(d[2], 2)

\* date.isoformat(): YYYY-MM-DD
DateIsoformat(d) == Pad(d[1], 4) \o <<45>> \o Pad(d[2], 2) \o <<45>> \o Pad(d[3], 2)

\* pydantic reading a date field from its ISO string
ParseDate(s) == <<Num(SubSeq(s, 1, 4)), Num(SubSeq(s, 6, 7)), Num(SubSeq(s, 9, 10))>>

\* "2024-01-01T00:00:00", the second the clock's ticks (microseconds) count from
EpochSecond ==
    <<50, 48, 50, 52, 45, 48, 49, 45, 48, 49, 84, 48, 48, 58, 48, 48, 58, 48, 48>>

\* datetime.isoformat(): the fraction is left out when the microsecond is 0
DatetimeIsoformat(t) == IF t = 0 THEN EpochSecond ELSE EpochSecond \o <<46>> \o Pad(t, 6)

\* pydantic reading a datetime field from its ISO string
ParseDatetime(s) ==
    IF Len(s) = Len(EpochSecond) THEN 0 ELSE Num(SubSeq(s, Len(EpochSecond) + 2, Len(s)))

-----------------------------------------------------------------------------
(* The record schemas                                                      *)

TimeSeries == {"body_compositions", "health_markers", "body_measurements"}
Catalog    == {"supplements", "peptides"}
Collections == TimeSeries \cup Catalog

\* The field a collection is listed by.  Every schema has further fields; the
\* handlers treat them all alike, and the model keeps one required field (this
\* one) and one optional field (notes) of each schema, and for Peptide the
\* three amounts and calculated_iu.
SortField(k) == IF k \in TimeSeries THEN "date" ELSE "name"

\* The fields of the create shape (BodyCompositionCreate, ..., PeptideCreate)
CreateFields(k) ==
    {SortField(k), "notes"} \cup (IF k = "peptides" THEN PositiveFields ELSE {})

OptionalFields == {"notes"}

BaseFields == {"id", "created_at", "updated_at"}

\* The fields of the stored shape (BodyComposition, ..., Peptide)
StoredFields(k) ==
    BaseFields \cup CreateFields(k) \cup (IF k = "peptides" THEN {"calculated_iu"} ELSE {})

DateFields     == {"date"}
DatetimeFields == {"created_at", "updated_at"}

\* json.loads(json.dumps(model.dict(), cls=DateTimeEncoder)): dates and datetimes
\* become their ISO strings, everything else is kept.
JsonDump(obj) ==
    [f \in DOMAIN obj |->
        IF f \in DateFields /\ obj[f] # None THEN DateIsoformat(obj[f])
        ELSE IF f \in DatetimeFields THEN DatetimeIsoformat(obj[f])
        ELSE obj[f]]

\* Model(**document): pydantic parses the ISO strings back.
ModelLoad(doc) ==
    [f \in DOMAIN doc |->
        IF f \in DateFields /\ doc[f] # None THEN ParseDate(doc[f])
        ELSE IF f \in DatetimeFields THEN ParseDatetime(doc[f])
        ELSE doc[f]]

\* ... with no check that the required fields are there
ValidationErrorsNoRequired(k, raw) ==
    LET present == DOMAIN raw \cap CreateFields(k)
    IN  {f \in present \ PositiveFields : raw[f] = BadType}
        \cup {f \in present \ (OptionalFields \cup PositiveFields) : raw[f] = None}
        \cup {f \in present \cap PositiveFields : raw[f] <= 0}

\* The fields of a request body that fail the create shape: a required field
\* that is missing, a string or date of the wrong type, and for PeptideCreate
\* the amounts validate_positive rejects.  Fields the shape does not have are
\* ignored.
ValidationErrors(k, raw) ==
    LET present == DOMAIN raw \cap CreateFields(k)
    IN  {f \in CreateFields(k) \ OptionalFields : f \notin present}
        \cup {f \in present \ PositiveFields : raw[f] = BadType}
        \cup {f \in present \ (OptionalFields \cup PositiveFields) : raw[f] = None}
        \cup {f \in present \cap PositiveFields : raw[f] <= 0}

\* ... every field of the body, those the shape does not have too
FieldsSetWithExtras(k, raw) == raw

\* The validated body: the fields that were set (data.dict(exclude_unset=True))
FieldsSet(k, raw) == [f \in DOMAIN raw \cap CreateFields(k) |-> raw[f]]

\* data.dict(): every field, an unset optional one at its default None
DataDict(k, raw) ==
    [f \in CreateFields(k) |-> IF f \in DOMAIN raw THEN raw[f] ELSE None]

-----------------------------------------------------------------------------
(* The document store: a collection is the sequence of its documents in    *)
(* natural (insertion) order.  The documents carry their own "id" field;   *)
(* the store knows no key.                                                 *)

Absent == NoBody

Matches(coll, i) == {n \in 1..Len(coll) : coll[n].id = i}

FirstMatch(coll, i) == CHOOSE n \in Matches(coll, i) : \A m \in Matches(coll, i) : n <= m

\* find_one({"id": i}): the first document with that id, or None
find_one(coll, i) == IF Matches(coll, i) = {} THEN Absent ELSE coll[FirstMatch(coll, i)]

\* ... a write that is lost
insert_one_lost(coll, doc) == coll

\* insert_one(doc)
insert_one(coll, doc) == Append(coll, doc)

\* ... upsert=True: a filter that matches nothing has doc inserted
replace_one_upsert(coll, i, doc) ==
    IF Matches(coll, i) = {} THEN Append(coll, doc)
    ELSE [coll EXCEPT ![FirstMatch(coll, i)] = doc]

\* ... a replace that gives way to a document written later than doc was made
replace_one_unless_newer(coll, i, doc) ==
    IF Matches(coll, i) = {} THEN coll
    ELSE IF ParseDatetime(doc.updated_at) < ParseDatetime(coll[FirstMatch(coll, i)].updated_at)
    THEN coll
    ELSE [coll EXCEPT ![FirstMatch(coll, i)] = doc]

\* replace_one({"id": i}, doc): overwrites the first match; without upsert a
\* filter that matches nothing changes nothing (matched_count = 0)
replace_one(coll, i, doc) ==
    IF Matches(coll, i) = {} THEN coll
    ELSE [coll EXCEPT ![FirstMatch(coll, i)] = doc]

\* ... nothing removed
delete_one_kept(coll, i) == coll

\* delete_one({"id": i}): removes the first match
delete_one(coll, i) ==
    IF Matches(coll, i) = {} THEN coll
    ELSE LET n == FirstMatch(coll, i)
         IN  SubSeq(coll, 1, n - 1) \o SubSeq(coll, n + 1, Len(coll))

\* ... a count that is never 0
deleted_count_one(coll, i) == 1

\* result.deleted_count
deleted_count(coll, i) == IF Matches(coll, i) = {} THEN 0 ELSE 1

\* The store's order on strings, from position k on: byte by byte, a proper
\* prefix first
RECURSIVE StringLessFrom(_, _, _)
StringLessFrom(a, b, k) ==
    IF k > Len(a) THEN k <= Len(b)
    ELSE IF k > Len(b) THEN FALSE
    ELSE IF a[k] = b[k] THEN StringLessFrom(a, b, k + 1)
    ELSE a[k] < b[k]

StringLess(a, b) == StringLessFrom(a, b, 1)

\* The arrangements of 1..n
Arrangements(n) == {f \in [1..n -> 1..n] : \A a, b \in 1..n : f[a] = f[b] => a = b}

\* find().sort(field, direction): the documents ordered by the field, ascending
\* for direction 1 and descending for -1.  The store promises no order among
\* documents whose values of the field are equal, so each query may see them
\* in any order: this is the set of orders a query can get.
cursor_sort(coll, field, direction) ==
    {[n \in 1..Len(coll) |-> coll[f[n]]] : f \in
        {g \in Arrangements(Len(coll)) :
            \A a \in 1..(Len(coll) - 1) :
                IF direction = 1
                THEN ~StringLess(coll[g[a + 1]][field], coll[g[a]][field])
                ELSE ~StringLess(coll[g[a]][field], coll[g[a + 1]][field])}}

\* .skip(skip).limit(limit).to_list(limit) of an ordered cursor, limit >= 1
skip_limit(ordered, skip, limit) ==
    SubSeq(ordered, skip + 1,
           IF skip + limit < Len(ordered) THEN skip + limit ELSE Len(ordered))

-----------------------------------------------------------------------------
(* Bounds and request bodies                                               *)

\* how far the clock runs
MaxClock == 1

\* how many records StoreSpec creates
MaxDocs == 3

\* Two requests can be in progress at once.
Clients == {"c1", "c2"}

\* Spec follows one record through its life: uuid4 hands out one identifier.
\* A handler addresses one document by its id and touches no other, so the
\* records of a collection do not interact.  StoreSpec holds several records.
Ids == {1}

StoreIds == 1..MaxDocs

\* 2024-01-05
Dates == {<<2024, 1, 5>>}

\* 2024-01-05, 2024-01-15 and 2023-12-31
StoreDates == {<<2024, 1, 5>>, <<2024, 1, 15>>, <<2023, 12, 31>>}

\* "B"
Names == {<<66>>}

\* "B", "a" and "ab"
StoreNames == {<<66>>, <<97>>, <<97, 98>>}

\* "n"
NotesValues == {<<110>>}

Amounts ==
    {[vial_amount_mg |-> 5,  bac_water_ml |-> 2, dose_mcg |-> 250],
     [vial_amount_mg |-> 10, bac_water_ml |-> 3, dose_mcg |-> 300]}

BadAmounts ==
    {[vial_amount_mg |-> 0,  bac_water_ml |-> 2, dose_mcg |-> 250],
     [vial_amount_mg |-> 5,  bac_water_ml |-> 0, dose_mcg |-> 250],
     [vial_amount_mg |-> 5,  bac_water_ml |-> 2, dose_mcg |-> -1]}

SortValues(k) == IF k \in TimeSeries THEN Dates ELSE Names

StoreSortValues(k) == IF k \in TimeSeries THEN StoreDates ELSE StoreNames

\* A calculated_iu a client sends along; PeptideCreate has no such field.
ClientIu == <<9999, 100>>

\* An id and a created_at a client sends along; no create shape has them.
ClientId == 99
ClientCreatedAt == 9

Body(S, k, key, notes, amt) ==
    [f \in S |-> IF f = SortField(k) THEN key
                 ELSE IF f = "notes" THEN notes
                 ELSE IF f = "calculated_iu" THEN ClientIu
                 ELSE IF f = "id" THEN ClientId
                 ELSE IF f = "created_at" THEN ClientCreatedAt
                 ELSE amt[f]]

\* The values of notes in the bodies: a string or null.  The peptide bodies,
\* which vary in their amounts, leave the null out.
NotesChoices(k) == IF k = "peptides" THEN NotesValues ELSE NotesValues \cup {None}

\* The bodies that pass validation: notes set or left out, with an id and a
\* created_at of the client's; for peptides also with a calculated_iu.
ValidBodies(k) ==
    {Body(S, k, key, notes, amt) :
        S \in {CreateFields(k), CreateFields(k) \ {"notes"}},
        key \in SortValues(k), notes \in NotesChoices(k), amt \in Amounts}
    \cup {Body((CreateFields(k) \ {"notes"}) \cup {"id", "created_at"}, k, key, None, amt) :
            key \in SortValues(k), amt \in Amounts}
    \cup (IF k = "peptides"
          THEN {Body((CreateFields(k) \ {"notes"}) \cup {"calculated_iu"}, k, key, None, amt) :
                   key \in SortValues(k), amt \in Amounts}
          ELSE {})

\* Bodies that fail it: the required field missing or of the wrong type, notes
\* of the wrong type, an amount that is not positive.
InvalidBodies(k) ==
    LET key == CHOOSE v \in SortValues(k) : TRUE
        amt == CHOOSE a \in Amounts : TRUE
    IN  {Body(CreateFields(k) \ {SortField(k)}, k, key, None, amt),
         Body(CreateFields(k), k, BadType, None, amt),
         Body(CreateFields(k), k, key, BadType, amt)}
        \cup (IF k = "peptides"
              THEN {Body(CreateFields(k), k, key, None, a) : a \in BadAmounts}
              ELSE {})

Bodies(k) == ValidBodies(k) \cup InvalidBodies(k)

\* The bodies StoreSpec creates records from: every sort value, notes left out.
StoreBodies(k) ==
    LET amt == CHOOSE a \in Amounts : TRUE
    IN  {Body(CreateFields(k) \ {"notes"}, k, key, None, amt) : key \in StoreSortValues(k)}

\* The bodies RecordsSpec writes records with; they carry an id and a
\* created_at of the client's.  Records are created without notes and updated
\* with notes.
RecordsCreateBodies(k) ==
    LET key == CHOOSE v \in SortValues(k) : TRUE
        amt == CHOOSE a \in Amounts : TRUE
    IN  {Body((CreateFields(k) \ {"notes"}) \cup {"id", "created_at"}, k, key, None, amt)}

RecordsUpdateBodies(k) ==
    LET key == CHOOSE v \in SortValues(k) : TRUE
        amt == CHOOSE a \in Amounts : TRUE
    IN  {Body(CreateFields(k) \cup {"id", "created_at"}, k, key,
              CHOOSE v \in NotesValues : TRUE, amt)}

\* The amounts of the bodies of the test run: each amount one of two values
TestAmounts ==
    [vial_amount_mg : {5, 10}, bac_water_ml : {2, 3}, dose_mcg : {250, 300}]

\* The bodies of the test run: every field of the create shape set
TestBodies(k) ==
    {Body(CreateFields(k), k, key, notes, amt) :
        key \in StoreSortValues(k), notes \in NotesValues, amt \in TestAmounts}

\* update_data = data.copy(); update_data[f] = ...: data with one field changed
TestUpdates(k, data) ==
    {raw \in TestBodies(k) : Cardinality({f \in CreateFields(k) : raw[f] # data[f]}) = 1}

-----------------------------------------------------------------------------
(* The handlers                                                            *)

NoResponse == [op |-> "none", id |-> 0, status |-> 0]

\* What is kept of a response r to request op on identifier i.
Sent(op, i, r) == [op |-> op, id |-> i, status |-> r.status]

Idle == [pc |-> "idle"]

\* The acknowledgment of a delete: {"detail": "... deleted successfully"}
Deleted == [detail |-> "deleted successfully"]

\* The amounts of a validated body or of a model instance
AmountsOf(x) == [f \in PositiveFields |-> x[f]]

\* ... updated_at the first reading of utcnow() and created_at the second
NewModelUpdatedFirst(k, data, id, t1, t2) ==
    [f \in StoredFields(k) |->
        IF f = "id" THEN id
        ELSE IF f = "created_at" THEN t2
        ELSE IF f = "updated_at" THEN t1
        ELSE IF f = "calculated_iu" THEN calculate_iu(AmountsOf(data))
        ELSE DataDict(k, data)[f]]

\* Model(**data.dict()) with the defaults of BaseDBModel: a fresh uuid4 and
\* two readings of utcnow(); for Peptide the calculated_iu the handler adds.
NewModel(k, data, id, t1, t2) ==
    [f \in StoredFields(k) |->
        IF f = "id" THEN id
        ELSE IF f = "created_at" THEN t1
        ELSE IF f = "updated_at" THEN t2
        ELSE IF f = "calculated_iu" THEN calculate_iu(AmountsOf(data))
        ELSE DataDict(k, data)[f]]

\* A create handler on a validated body: the response, and the collection
\* after it.  create_peptide builds a PeptideCalculation first; a
\* ValidationError there is answered 400 and any other exception 500.
create_handler(k, coll, data, id, t1, t2) ==
    IF k = "peptides" /\ validate_positive(AmountsOf(data)) # {}
    THEN [response |-> HTTPException(400), coll |-> coll]
    ELSE IF k = "peptides" /\ ZeroDivision(AmountsOf(data))
    THEN [response |-> HTTPException(500), coll |-> coll]
    ELSE LET model == NewModel(k, data, id, t1, t2)
         IN  [response |-> Ok(model), coll |-> insert_one(coll, JsonDump(model))]

\* A get handler
get_handler(coll, i) ==
    LET document == find_one(coll, i)
    IN  IF document = Absent THEN HTTPException(404) ELSE Ok(ModelLoad(document))

\* A delete handler
delete_handler(coll, i) ==
    [response |-> IF deleted_count(coll, i) = 0 THEN HTTPException(404) ELSE Ok(Deleted),
     coll     |-> delete_one(coll, i)]

\* The update handlers between find_one and replace_one: the stored document
\* is loaded, every field of update_data is assigned, update_peptide assigns
\* the calculated_iu, and updated_at is set.
MergeFields(found, update_data, iu, now) ==
    LET updated == ModelLoad(found)
    IN  [f \in DOMAIN updated |->
            IF f = "updated_at" THEN now
            ELSE IF f = "calculated_iu" THEN iu
            ELSE IF f \in DOMAIN update_data THEN update_data[f]
            ELSE updated[f]]

\* calculated_iu where the schema has none
NoIu == <<0, 100>>

\* update_peptide: the calculation is built from the body's amounts
BodyIu(k, data) == IF k = "peptides" THEN calculate_iu(AmountsOf(data)) ELSE NoIu

\* ... the calculation built from the stored amounts instead
MergeUpdateStoredIu(k, found, data, now) ==
    MergeFields(found, data,
                IF k = "peptides" THEN calculate_iu(AmountsOf(ModelLoad(found))) ELSE NoIu,
                now)

\* ... data.dict() in place of data.dict(exclude_unset=True)
MergeUpdateAllFields(k, found, data, now) ==
    MergeFields(found, DataDict(k, data), BodyIu(k, data), now)

\* ... created_at assigned to updated_at
MergeUpdateCreatedAt(k, found, data, now) ==
    MergeFields(found, data, BodyIu(k, data), ModelLoad(found).created_at)

\* data.dict(exclude_unset=True) assigned, calculated_iu of the body, utcnow()
MergeUpdate(k, found, data, now) ==
    MergeFields(found, data, BodyIu(k, data), now)

\* sort("date", -1) for the dated records, sort("name", 1) for the named ones
SortDirection(k) == IF k \in TimeSeries THEN -1 ELSE 1

\* A list handler, on one of the orders the sort can deliver
list_handler(ordered, skip, limit) ==
    LET page == skip_limit(ordered, skip, limit)
    IN  Ok([n \in 1..Len(page) |-> ModelLoad(page[n])])

\* What an update handler returns after replace_one: the merged model, 200.
update_return(updated) == Ok(updated)

\* ... the first identifier of the pool, handed out before or not
uuid4_first(pool, used) == CHOOSE i \in pool : \A j \in pool : i <= j

\* str(uuid.uuid4()): an identifier not handed out before
uuid4(pool, used) == CHOOSE i \in pool \ used : \A j \in pool \ used : i <= j

\* No page listed: a write to the collection makes the pages listed before it
\* pages of another collection.
NoList == [skip |-> 0, limit |-> 0, body |-> <<>>]

\* POST /<resource>, the identifiers coming from pool
Create(p, raw, pool) ==
    /\ req[p] = Idle
    /\ IF ValidationErrors(kind, raw) # {}
       THEN /\ resp' = Sent("create", 0, RequestValidationError(ValidationErrors(kind, raw)))
            /\ UNCHANGED <<db, clock, issued, created, born, acked>>
       ELSE \E t2 \in {clock, clock + 1} :
                 /\ pool \ issued # {}
                 /\ t2 <= MaxClock
                 /\ LET id  == uuid4(pool, issued)
                        out == create_handler(kind, db, FieldsSet(kind, raw), id, clock, t2)
                    IN  /\ resp' = Sent("create", id, out.response)
                        /\ db' = out.coll
                        /\ created' = [created EXCEPT ![id] = out.response.body]
                        /\ born' = [born EXCEPT ![id] =
                                       IF out.response.status = 200
                                       THEN [id |-> out.response.body.id,
                                             created_at |-> out.response.body.created_at]
                                       ELSE NoBody]
                        /\ issued' = issued \cup {id}
                 /\ clock' = t2
                 /\ UNCHANGED acked
    /\ UNCHANGED <<kind, req, calc>>
    /\ lst' = IF db' = db THEN lst ELSE NoList

\* GET /<resource>/{id}
Get(p, i) ==
    /\ req[p] = Idle
    /\ resp' = Sent("get", i, get_handler(db, i))
    /\ UNCHANGED <<kind, db, clock, req, issued, created, born, acked, calc, lst>>

\* DELETE /<resource>/{id}
Delete(p, i) ==
    /\ req[p] = Idle
    /\ db' = delete_handler(db, i).coll
    /\ resp' = Sent("delete", i, delete_handler(db, i).response)
    /\ created' = IF db' # db THEN [created EXCEPT ![i] = NoBody] ELSE created
    /\ born' = IF db' # db THEN [born EXCEPT ![i] = NoBody] ELSE born
    /\ acked' = IF delete_handler(db, i).response.status = 200 THEN acked \cup {i} ELSE acked
    /\ UNCHANGED <<kind, clock, req, issued, calc>>
    /\ lst' = IF db' = db THEN lst ELSE NoList

\* PUT /<resource>/{id}, to the return of find_one
UpdateLookup(p, i, raw) ==
    /\ req[p] = Idle
    /\ IF ValidationErrors(kind, raw) # {}
       THEN /\ resp' = Sent("update", i, RequestValidationError(ValidationErrors(kind, raw)))
            /\ UNCHANGED req
       ELSE IF find_one(db, i) = Absent
       THEN /\ resp' = Sent("update", i, HTTPException(404))
            /\ UNCHANGED req
       ELSE /\ req' = [req EXCEPT ![p] = [pc |-> "found", id |-> i,
                                           data |-> FieldsSet(kind, raw),
                                           found |-> find_one(db, i)]]
            /\ UNCHANGED resp
    /\ UNCHANGED <<kind, db, clock, issued, created, born, acked, calc, lst>>

\* PUT, from the return of find_one to the call of replace_one.  In
\* update_peptide an exception of the calculation is not caught: 500.
UpdateMerge(p) ==
    /\ req[p].pc = "found"
    /\ IF kind = "peptides" /\ (\/ validate_positive(AmountsOf(req[p].data)) # {}
                                \/ ZeroDivision(AmountsOf(req[p].data)))
       THEN /\ resp' = Sent("update", req[p].id, HTTPException(500))
            /\ req' = [req EXCEPT ![p] = Idle]
       ELSE /\ req' = [req EXCEPT ![p] =
                          [pc |-> "merged", id |-> req[p].id,
                           fields |-> DOMAIN req[p].data,
                           updated |-> MergeUpdate(kind, req[p].found, req[p].data, clock)]]
            /\ UNCHANGED resp
    /\ UNCHANGED <<kind, db, clock, issued, created, born, acked, calc, lst>>

\* PUT, replace_one and the return: the result of replace_one is not looked at.
UpdateReplace(p) ==
    /\ req[p].pc = "merged"
    /\ db' = replace_one(db, req[p].id, JsonDump(req[p].updated))
    /\ resp' = Sent("update", req[p].id, update_return(req[p].updated))
    /\ req' = [req EXCEPT ![p] = Idle]
    /\ created' = IF db' # db THEN [created EXCEPT ![req[p].id] = NoBody] ELSE created
    /\ UNCHANGED <<kind, clock, issued, born, acked, calc>>
    /\ lst' = IF db' = db THEN lst ELSE NoList

\* GET /<resource>?limit=&skip=, where ordered is what the sorted query
\* delivers: one of cursor_sort(db, SortField(kind), SortDirection(kind))
List(p, ordered, skip, limit) ==
    /\ req[p] = Idle
    /\ LET out == list_handler(ordered, skip, limit)
       IN  /\ resp' = Sent("list", 0, out)
           /\ lst' = [skip |-> skip, limit |-> limit, body |-> out.body]
    /\ UNCHANGED <<kind, db, clock, req, issued, created, born, acked, calc>>

\* Time passes.
Tick ==
    /\ clock < MaxClock
    /\ clock' = clock + 1
    /\ UNCHANGED <<kind, db, req, resp, issued, created, born, acked, calc, lst>>

\* limit: int = 100, skip: int = 0
DefaultLimit == 100
DefaultSkip == 0

Init ==
    /\ kind \in Collections
    /\ db = <<>>
    /\ clock = 0
    /\ req = [p \in Clients |-> Idle]
    /\ resp = NoResponse
    /\ issued = {}
    /\ created = [i \in Ids \cup StoreIds |-> NoBody]
    /\ born = [i \in Ids \cup StoreIds |-> NoBody]
    /\ acked = {}
    /\ calc = NoCalc
    /\ lst = NoList

Next ==
    \/ \E p \in Clients, raw \in Bodies(kind) : Create(p, raw, Ids)
    \/ \E p \in Clients, i \in Ids : Get(p, i)
    \/ \E p \in Clients, i \in Ids : Delete(p, i)
    \/ \E p \in Clients, i \in Ids, raw \in Bodies(kind) : UpdateLookup(p, i, raw)
    \/ \E p \in Clients : UpdateMerge(p)
    \/ \E p \in Clients : UpdateReplace(p)
    \/ Tick

Spec == Init /\ [][Next]_vars

\* A collection of several records and its listing: one client creates
\* records and asks for pages, with the parameters given or left to their
\* defaults.  The clock stands still here; no page depends on a timestamp.
StoreNext ==
    \/ \E raw \in StoreBodies(kind) : Create("c1", raw, StoreIds) /\ clock' = clock
    \/ \E ordered \in cursor_sort(db, SortField(kind), SortDirection(kind)) :
         \E skip \in 0..MaxDocs, limit \in 1..MaxDocs :
             List("c1", ordered, skip, limit)
    \/ \E ordered \in cursor_sort(db, SortField(kind), SortDirection(kind)) :
         List("c1", ordered, DefaultSkip, DefaultLimit)

StoreSpec == Init /\ [][StoreNext]_vars

\* Several records and the writes to them: two clients create, update and
\* delete records, the steps of their updates interleaved.  The clock stands
\* still here.
RecordsNext ==
    \/ \E p \in Clients, raw \in RecordsCreateBodies(kind) :
         Create(p, raw, StoreIds) /\ clock' = clock
    \/ \E p \in Clients, i \in StoreIds : Delete(p, i)
    \/ \E p \in Clients, i \in StoreIds, raw \in RecordsUpdateBodies(kind) :
         UpdateLookup(p, i, raw)
    \/ \E p \in Clients : UpdateMerge(p)
    \/ \E p \in Clients : UpdateReplace(p)

RecordsSpec == Init /\ [][RecordsNext]_vars

\* The test run of one resource: one client creates a record and, if that
\* succeeded, gets it, lists the collection, updates the record with the body
\* of the create with one field changed, and deletes it, each request sent
\* when the one before it was answered.  No other client is there.
TestNext ==
    \/ /\ resp = NoResponse
       /\ \E raw \in TestBodies(kind) : Create("c1", raw, Ids)
    \/ /\ resp.op = "create" /\ resp.status = 200
       /\ Get("c1", resp.id)
    \/ /\ resp.op = "get"
       /\ \E ordered \in cursor_sort(db, SortField(kind), SortDirection(kind)) :
            List("c1", ordered, DefaultSkip, DefaultLimit)
    \/ /\ resp.op = "list"
       /\ \E i \in issued :
            /\ created[i] # NoBody
            /\ \E raw \in TestUpdates(kind, created[i]) : UpdateLookup("c1", i, raw)
    \/ UpdateMerge("c1")
    \/ UpdateReplace("c1")
    \/ /\ resp.op = "update"
       /\ Delete("c1", resp.id)
    \/ Tick

TestSpec == Init /\ [][TestNext]_vars

\* The calculator alone.
CalcInit ==
    /\ kind = "peptides"
    /\ db = <<>>
    /\ clock = 0
    /\ req = [p \in Clients |-> Idle]
    /\ resp = NoResponse
    /\ issued = {}
    /\ created = [i \in Ids \cup StoreIds |-> NoBody]
    /\ born = [i \in Ids \cup StoreIds |-> NoBody]
    /\ acked = {}
    /\ calc = NoCalc
    /\ lst = NoList

CalcNext == \E c \in CalcRequests : Calculate(c)

CalcSpec == CalcInit /\ [][CalcNext]_vars

-----------------------------------------------------------------------------
(* Properties                                                              *)

\* The document with identifier i, as the model class loads it
Stored(coll, i) == ModelLoad(find_one(coll, i))

Present(coll, i) == find_one(coll, i) # Absent

\* C1: every stored Peptide's calculated_iu is calculate_iu of the amounts
\* stored in the same document, after a create and after any update, whatever
\* calculated_iu the client sent.
C1_DerivedIu ==
    kind = "peptides" =>
        \A n \in 1..Len(db) : db[n].calculated_iu = calculate_iu(AmountsOf(db[n]))

\* an update that changed the amounts has been written
C1_Witness ==
    /\ kind = "peptides"
    /\ resp = [op |-> "update", id |-> 1, status |-> 200]
    /\ Present(db, 1)
    /\ Stored(db, 1).dose_mcg = 300
    /\ Stored(db, 1).calculated_iu = <<900, 100>>
    /\ Stored(db, 1).updated_at > Stored(db, 1).created_at

\* C2 as amended: a successful update sets every field its body includes to the
\* body's value and leaves every field it omits, and id and created_at, as they
\* were in the document its own find_one returned; that merged document is
\* what replace_one stores.
C2_SparseMerge ==
    [][\A p \in Clients :
        /\ (UpdateMerge(p) /\ req'[p].pc = "merged") =>
              LET old == ModelLoad(req[p].found)
                  new == req'[p].updated
              IN  /\ \A f \in CreateFields(kind) :
                        new[f] = IF f \in DOMAIN req[p].data THEN req[p].data[f] ELSE old[f]
                  /\ new.id = old.id
                  /\ new.created_at = old.created_at
        /\ (UpdateReplace(p) /\ Present(db, req[p].id)) =>
              Stored(db', req[p].id) = req[p].updated]_vars

\* an update that left notes out has been written over a record with notes
C2_Witness ==
    /\ resp = [op |-> "update", id |-> 1, status |-> 200]
    /\ Present(db, 1)
    /\ Stored(db, 1).notes \in NotesValues
    /\ Stored(db, 1).updated_at > Stored(db, 1).created_at
    /\ \E p \in Clients : req[p].pc = "merged" /\ "notes" \notin req[p].fields

\* C2 as written: a successful update leaves every omitted field as it was in
\* the stored record immediately before the update, sets the included fields
\* to the body's values, and changes neither id nor created_at.
C2_SparseMergeImmediatelyBefore ==
    [][\A p \in Clients :
        (UpdateReplace(p) /\ Present(db, req[p].id)) =>
            LET old == Stored(db, req[p].id)
                new == Stored(db', req[p].id)
            IN  /\ \A f \in CreateFields(kind) :
                      new[f] = IF f \in req[p].fields THEN req[p].updated[f] ELSE old[f]
                /\ new.id = old.id
                /\ new.created_at = old.created_at]_vars

\* C3: an update answers 404 whenever no document has the identifier when
\* replace_one is applied.
C3_UpdateOfAbsentIs404 ==
    [][\A p \in Clients :
        (UpdateReplace(p) /\ ~Present(db, req[p].id)) => resp'.status = 404]_vars

\* C4: a get or a delete of an identifier that is not in the collection, never
\* created or already deleted, answers 404 and leaves the collection as it is.
C4_AbsentIs404 ==
    [][\A p \in Clients, i \in Ids :
        ((Get(p, i) \/ Delete(p, i)) /\ ~Present(db, i)) =>
            (resp'.status = 404 /\ db' = db)]_vars

\* a second delete of a deleted record has answered 404
C4_Witness ==
    /\ issued = {1}
    /\ db = <<>>
    /\ resp = [op |-> "delete", id |-> 1, status |-> 404]

\* C5: a create with a valid body P returns a stored shape whose client-settable
\* fields are P's, and until an update or a delete of that identifier is
\* applied a get of it answers 200 with that same shape, id and both
\* timestamps included.
C5_RoundTrip ==
    /\ [](\A i \in Ids :
            created[i] # NoBody => get_handler(db, i) = Ok(created[i]))
    /\ [][\A p \in Clients :
            /\ \A i \in Ids :
                  (Get(p, i) /\ created[i] # NoBody) => resp'.status = 200
            /\ \A raw \in ValidBodies(kind) :
                  (Create(p, raw, Ids) /\ issued' # issued) =>
                      \A f \in CreateFields(kind) :
                          created'[uuid4(Ids, issued)][f] =
                              IF f \in DOMAIN raw THEN raw[f] ELSE None]_vars

\* a get of a record nothing has touched since its create has answered 200
C5_Witness ==
    /\ resp = [op |-> "get", id |-> 1, status |-> 200]
    /\ created[1] # NoBody
    /\ created[1].updated_at > created[1].created_at

\* C6 as amended: a successful update stores an updated_at that is at least the
\* updated_at of the document its own find_one returned (the clock not going
\* back).
C6_UpdatedAtNotBeforeRead ==
    [][\A p \in Clients :
        /\ (UpdateMerge(p) /\ req'[p].pc = "merged") =>
              req'[p].updated.updated_at >= ModelLoad(req[p].found).updated_at
        /\ (UpdateReplace(p) /\ Present(db, req[p].id)) =>
              Stored(db', req[p].id).updated_at = req[p].updated.updated_at]_vars

\* an update has raised the stored updated_at
C6_Witness ==
    /\ resp = [op |-> "update", id |-> 1, status |-> 200]
    /\ Present(db, 1)
    /\ Stored(db, 1).created_at = 0
    /\ Stored(db, 1).updated_at = MaxClock

\* C6 as written: the stored updated_at of a record never decreases.
C6_UpdatedAtNeverDecreases ==
    [][\A i \in Ids :
        (Present(db, i) /\ Present(db', i)) =>
            Stored(db', i).updated_at >= Stored(db, i).updated_at]_vars

\* C7: the calculator rejects a body with an amount that is not positive with
\* status 400, naming the offending fields, and computes nothing.
C7_RejectedWith400 ==
    (calc # NoCalc /\ \E f \in PositiveFields : calc.request[f] <= 0) =>
        /\ calc.response.status = 400
        /\ calc.response.detail = {f \in PositiveFields : calc.request[f] <= 0}
        /\ calc.response.body = NoBody

\* |num / den - k| <= 1/2: k is num / den rounded to an integer
C8_Rounds(num, den, k) ==
    LET diff == num - k * den
    IN  2 * (IF diff < 0 THEN -diff ELSE diff) <= den

\* C8: for positive amounts the calculator answers 200 with
\* iu = dose / ((vial * 1000) / bac) * 100 rounded to 2 decimals, which is what
\* calculate_iu returns, vial_amount_mcg = vial * 1000, the concentration
\* rounded to 2 decimals and the volume rounded to 4; for 5 mg, 2 ml, 250 mcg
\* that is 5000, 2500, 0.1 and 10.00.
C8_Calculator ==
    (calc # NoCalc /\ \A f \in PositiveFields : calc.request[f] > 0) =>
        LET v == calc.request.vial_amount_mg
            b == calc.request.bac_water_ml
            d == calc.request.dose_mcg
            r == calc.response
        IN  /\ r.status = 200
            /\ r.body.iu = calculate_iu(calc.request)
            /\ r.body.iu[2] = 100
            /\ C8_Rounds(10 * d * b, v, r.body.iu[1])
            /\ RatEq(r.body.details.vial_amount_mcg, Rat(v * 1000))
            /\ r.body.details.concentration_mcg_ml[2] = 100
            /\ C8_Rounds(100000 * v, b, r.body.details.concentration_mcg_ml[1])
            /\ r.body.details.volume_ml[2] = 10000
            /\ C8_Rounds(10 * d * b, v, r.body.details.volume_ml[1])
            /\ (v = 5 /\ b = 2 /\ d = 250) =>
                  /\ RatEq(r.body.iu, Rat(10))
                  /\ RatEq(r.body.details.vial_amount_mcg, Rat(5000))
                  /\ RatEq(r.body.details.concentration_mcg_ml, Rat(2500))
                  /\ RatEq(r.body.details.volume_ml, <<1, 10>>)

\* the calculator has answered the request of the example
C8_Witness ==
    /\ calc.request = [vial_amount_mg |-> 5, bac_water_ml |-> 2, dose_mcg |-> 250]
    /\ calc.response.status = 200

\* The identifiers of the records of a page
PageIds(body) == {body[n].id : n \in 1..Len(body)}

\* C9: list(skip, limit) returns min(limit, max(0, n - skip)) records, in the
\* order of the sort field (date descending, name ascending); and when the
\* collection of n records, limit < n <= 2 * limit, is listed as list(0, limit)
\* and then list(limit, limit), the first page has limit records, the second
\* the remaining n - limit, the pages are disjoint and together hold every
\* record.
C9_Pagination ==
    [][(lst' # lst /\ lst' # NoList) =>
        LET n      == Len(db)
            skip   == lst'.skip
            limit  == lst'.limit
            rest   == IF n > skip THEN n - skip ELSE 0
            key(m) == JsonDump(lst'.body[m])[SortField(kind)]
        IN  /\ Len(lst'.body) = IF limit < rest THEN limit ELSE rest
            /\ PageIds(lst'.body) \subseteq {db[m].id : m \in 1..n}
            /\ \A a, b \in 1..Len(lst'.body) :
                  a < b => IF SortDirection(kind) = 1
                           THEN ~StringLess(key(b), key(a))
                           ELSE ~StringLess(key(a), key(b))
            /\ (/\ lst.skip = 0 /\ lst.limit = limit /\ skip = limit
                /\ limit < n /\ n <= 2 * limit) =>
                    /\ Len(lst.body) = limit
                    /\ Len(lst'.body) = n - limit
                    /\ PageIds(lst.body) \cap PageIds(lst'.body) = {}
                    /\ PageIds(lst.body) \cup PageIds(lst'.body) =
                          {db[m].id : m \in 1..n}]_vars

\* C10: a create or an update whose body fails validation is answered with a
\* client error and writes nothing: the collection is as it was, and no
\* replace_one is left to come.
C10_InvalidWritesNothing ==
    [][\A p \in Clients, raw \in InvalidBodies(kind) :
        (\/ Create(p, raw, Ids)
         \/ \E i \in Ids : UpdateLookup(p, i, raw)) =>
            /\ resp'.status \in 400..499
            /\ db' = db
            /\ req' = req]_vars

\* an invalid update of a stored record has been rejected
C10_Witness ==
    /\ resp = [op |-> "update", id |-> 1, status |-> 422]
    /\ Present(db, 1)
    /\ \A p \in Clients : req[p] = Idle

\* C11: every stored record carries the id and the created_at that the create
\* which produced it returned, after any sequence or interleaving of updates,
\* whatever their bodies hold, an id and a created_at included.
C11_IdAndCreatedAtKept ==
    \A n \in 1..Len(db) :
        LET document == ModelLoad(db[n])
        IN  /\ document.id \in DOMAIN born
            /\ born[document.id] =
                  [id |-> document.id, created_at |-> document.created_at]

\* an update has been written over a record created at time 0, with another
\* update of it in flight
C11_Witness ==
    /\ resp = [op |-> "update", id |-> 1, status |-> 200]
    /\ Present(db, 1)
    /\ born[1] = [id |-> 1, created_at |-> 0]
    /\ Stored(db, 1).updated_at = MaxClock
    /\ \E p \in Clients : req[p].pc = "merged" /\ req[p].id = 1

\* C12: in every reachable state every stored record has updated_at >=
\* created_at: as created, and after any sequence or interleaving of updates.
C12_UpdatedAtNotBeforeCreatedAt ==
    \A n \in 1..Len(db) :
        ModelLoad(db[n]).updated_at >= ModelLoad(db[n]).created_at

\* a record created at the last tick has been updated within the same tick
C12_Witness ==
    /\ resp = [op |-> "update", id |-> 1, status |-> 200]
    /\ Present(db, 1)
    /\ Stored(db, 1).created_at = MaxClock
    /\ Stored(db, 1).updated_at = MaxClock

\* The identifiers of the documents of a collection
StoredIds(coll) == {coll[n].id : n \in 1..Len(coll)}

\* C13: in every reachable state no two documents of the collection share an
\* identifier, and every identifier stored is one a create assigned; a create
\* assigns an identifier that no record stored before had, and no update and
\* no delete brings in a duplicate.
C13_UniqueIds ==
    /\ [](/\ \A a, b \in 1..Len(db) : db[a].id = db[b].id => a = b
          /\ StoredIds(db) \subseteq issued)
    /\ [][Len(db') > Len(db) =>
            /\ db'[Len(db')].id \notin issued
            /\ StoredIds(db') = StoredIds(db) \cup {db'[Len(db')].id}]_vars

\* three records were created, the second was deleted and another was updated
C13_Witness ==
    /\ issued = {1, 2, 3}
    /\ StoredIds(db) = {1, 3}
    /\ resp = [op |-> "update", id |-> 3, status |-> 200]
    /\ Stored(db, 3).notes \in NotesValues

\* C14: when one client creates a record with a valid body and nothing else
\* touches its identifier, the get of the returned id, the list, the update
\* of the id with the create's body with one field changed and the delete of
\* the id, sent in this order, all answer 200; after the update the record
\* is retrievable, as updated, and the delete answers with its acknowledgment
\* and removes the record.
C14_TestRunSucceeds ==
    /\ [](resp.status \in {0, 200})
    /\ [][/\ UpdateReplace("c1") =>
               /\ get_handler(db', req["c1"].id) = Ok(req["c1"].updated)
               /\ req["c1"].fields = CreateFields(kind)
          /\ (resp.op = "update" /\ resp'.op = "delete") =>
               /\ delete_handler(db, resp.id).response = Ok(Deleted)
               /\ ~Present(db', resp.id)]_vars

\* the test run has come to its end: the delete was answered 200
C14_Witness ==
    /\ resp = [op |-> "delete", id |-> 1, status |-> 200]
    /\ issued = {1}
    /\ db = <<>>
    /\ lst = NoList
    /\ clock = MaxClock

\* C15: when two updates of one stored identifier are in flight together,
\* each a lookup followed later by a replace, no conflict is noticed: each
\* replace answers 200, leaves the other update to go on, and stores the
\* merged document its own update prepared, so the document stored after
\* both is that of the update whose replace came last, whatever the other
\* had changed.
C15_LastWriteWins ==
    [][\A p \in Clients :
        (UpdateReplace(p) /\ Present(db, req[p].id)) =>
            /\ resp' = [op |-> "update", id |-> req[p].id, status |-> 200]
            /\ db' = replace_one(db, req[p].id, JsonDump(req[p].updated))
            /\ get_handler(db', req[p].id) = Ok(req[p].updated)
            /\ \A q \in Clients \ {p} : req'[q] = req[q]]_vars

\* of two updates in flight together one has set notes and been written; the
\* other, which read the record before that and leaves notes out, is about to
\* write the record without notes
C15_Witness ==
    /\ resp = [op |-> "update", id |-> 1, status |-> 200]
    /\ Present(db, 1)
    /\ Stored(db, 1).notes \in NotesValues
    /\ Stored(db, 1).updated_at = MaxClock
    /\ \E p \in Clients :
         /\ req[p].pc = "merged" /\ req[p].id = 1
         /\ "notes" \notin req[p].fields
         /\ req[p].updated.notes = None
         /\ req[p].updated.updated_at < MaxClock

\* C16: a delete that succeeds removes the record, and an identifier that was
\* handed out and is no longer in the collection never comes back: not by a
\* later request and not by the replace of an update that had done its lookup
\* before the delete.
C16_DeleteIsPermanent ==
    [][/\ \A p \in Clients, i \in Ids :
            (Delete(p, i) /\ resp'.status = 200) => ~Present(db', i)
       /\ \A i \in issued : ~Present(db, i) => ~Present(db', i)]_vars

\* the replace of an update that was in flight when its record was deleted
\* has run, and the record is not there
C16_Witness ==
    /\ resp = [op |-> "update", id |-> 1, status |-> 200]
    /\ issued = {1}
    /\ db = <<>>
    /\ \A p \in Clients : req[p] = Idle

\* C17: over the life of the collection at most one delete of an identifier
\* is answered 200, in whatever order the deletes of several clients run: the
\* delete that finds the record answers 200, and every delete of an
\* identifier whose delete was answered 200 before answers 404.
C17_OneDeleteSucceeds ==
    [][\A p \in Clients, i \in Ids :
        Delete(p, i) =>
            /\ resp'.status = 200 => i \notin acked
            /\ Present(db, i) => resp'.status = 200
            /\ i \in acked => resp'.status = 404]_vars

\* a delete of a record has been answered 200 and a later delete of it 404,
\* with an update of it still in flight
C17_Witness ==
    /\ acked = {1}
    /\ resp = [op |-> "delete", id |-> 1, status |-> 404]
    /\ clock = MaxClock
    /\ \E p \in Clients : req[p].pc = "merged" /\ req[p].id = 1

=============================================================================
